---------------------------- MODULE Spec2Model ----------------------------
(***************************************************************************)
(* The resumable batch pipeline of src/fathom_batch_processor.py:          *)
(* FathomBatchProcessor.run starts one process_video task per manifest     *)
(* entry on a single asyncio event loop; a task runs without interruption  *)
(* from one await of an external operation (browser capture, ffmpeg,       *)
(* transcription) to the next, so each action below is the code between    *)
(* two such awaits.  The process may be killed at any time; main() then    *)
(* starts again from what is on disk (processing_progress.json and the     *)
(* artifact files).                                                        *)
(***************************************************************************)
EXTENDS Integers, Sequences, FiniteSets, TLC

\* ------------------------------------------------------------------ bounds
\* Number of entries of fathom_calls.json (ids unique, sanitized titles distinct).
NumItems == 2
\* Number of times main() is started in one behaviour.
MaxRuns == 2
\* Largest number of permits of self.semaphore.  The source sets MAX_WORKERS
\* to 8 (fathom_batch_processor.py:30); the model runs the program with every
\* value from 1 to MaxPermits, so that with one permit tasks queue at the gate
\* and with two permits two pipelines are in flight together.
MaxPermits == 2

\* Positions of the entries of fathom_calls.json; the task of an entry, its
\* sanitized title and so its artifact folder are named by its position.
Items == 1..NumItems

VARIABLES
    runNo,          \* which start of main() this is (also stands for the wall clock)
    phase,          \* "running" | "finished" | "crashed" | "load_failed"
    apiKey,         \* ASSEMBLYAI_API_KEY is set and is not the placeholder
    writeFaults,    \* open() or write() of processing_progress.json can raise
    videos,         \* fathom_calls.json: the id of the entry at each position
    MAX_WORKERS,    \* the program's constant: permits of self.semaphore
    progress,       \* self.progress, the ledger in memory
    progress_file,  \* processing_progress.json on disk
    semaphore,      \* value of self.semaphore
    pc,             \* where each process_video task is
    files,          \* the artifact files of each item on disk
    invoked,        \* collaborators called for each item in this run
    pbar,           \* ticks of the batch progress bar
    failuresSaved,  \* per item, the failure records whose save completed (history)
    input,          \* the arguments of a helper function called on its own
    output          \* what that helper function returned

vars == <<runNo, phase, apiKey, writeFaults, videos, MAX_WORKERS, progress,
          progress_file, semaphore, pc, files, invoked, pbar, failuresSaved,
          input, output>>

\* The state of the batch: everything but a helper function's call.
batch == <<runNo, phase, apiKey, writeFaults, videos, MAX_WORKERS, progress,
           progress_file, semaphore, pc, files, invoked, pbar, failuresSaved>>

\* What no step of the batch changes: the program's constant, its
\* surroundings, and the helper functions' calls studied on their own.
config == <<writeFaults, videos, MAX_WORKERS, input, output>>

\* No helper function is being studied.
NoCall == "none"

\* video_data['id'] of the manifest entry at position i.
VideoId(i) == videos[i]

\* ------------------------------------------------------------ the ledger
Range(s) == {s[k] : k \in 1..Len(s)}

\* _load_progress's value when there is no file.
EmptyProgress == [processed_ids |-> <<>>, failed_ids |-> <<>>]

NoFile == [st |-> "absent", data |-> EmptyProgress]

\* A file cut short by a kill between open(..., 'w') and the end of json.dump:
\* json.load raises on it.
Truncated == [st |-> "truncated", data |-> EmptyProgress]

\* Faulty variant: the saved ledger is ignored.
load_progress_drop(file) == EmptyProgress

\* _load_progress: the empty ledger when the file does not exist, else the
\* file's content.  (On a truncated file json.load raises; main tests for that
\* before it uses this value.)
load_progress(file) == IF file.st = "absent" THEN EmptyProgress ELSE file.data

\* Faulty variant: a file that cannot be parsed is read as it is.
load_raises_never(file) == FALSE

\* json.load raises JSONDecodeError on a file that is cut short; nothing
\* catches it in _load_progress, __init__ or main.
load_raises(file) == file.st = "truncated"

\* Faulty variant: the file is left as it was.
save_progress_skip(p) == progress_file

\* _save_progress completed: the file holds exactly the ledger in memory.
save_progress(p) == [st |-> "ok", data |-> p]

\* Faulty variant: nothing counts as processed.
is_processed_never(video_id) == FALSE

\* video_id in self.progress['processed_ids']
is_processed(video_id) == video_id \in Range(progress.processed_ids)

\* The record process_video appends in its except branch.
FailureRecord(i, err) ==
    [id |-> VideoId(i), title |-> i, error |-> err, timestamp |-> runNo]

\* ------------------------------------------------------------- the files
NoFiles == [html |-> "none", mp3 |-> "none", transcript |-> FALSE,
            speakers |-> FALSE, metadata |-> FALSE, final |-> 0]

Collaborators == {"capture", "transcoder", "transcription", "metadata", "merge"}

Terminal == {"skipped", "completed", "failed"}
Holding == {"capturing", "transcoding", "transcribing"}

\* The state of a process that is not running: nothing in memory.
NoTasks == [i \in Items |-> "pending"]
NoCalls == [i \in Items |-> {}]

\* The first start of main() in an empty downloads directory.
FirstStart ==
    /\ runNo = 1
    /\ phase = "running"
    /\ apiKey \in BOOLEAN
    /\ MAX_WORKERS \in 1..MaxPermits
    /\ progress = EmptyProgress
    /\ progress_file = NoFile
    /\ semaphore = MAX_WORKERS
    /\ pc = NoTasks
    /\ files = [i \in Items |-> NoFiles]
    /\ invoked = NoCalls
    /\ pbar = 0
    /\ failuresSaved = [i \in Items |-> {}]
    /\ input = NoCall
    /\ output = NoCall

\* A manifest whose entries have different ids.
UniqueIds == [i \in Items |-> i]

\* No batch is running: the state in which the helper functions are applied.
NoBatch ==
    /\ runNo = 1
    /\ phase = "finished"
    /\ apiKey = FALSE
    /\ writeFaults = FALSE
    /\ videos = UniqueIds
    /\ MAX_WORKERS = 1
    /\ progress = EmptyProgress
    /\ progress_file = NoFile
    /\ semaphore = 1
    /\ pc = NoTasks
    /\ files = [i \in Items |-> NoFiles]
    /\ invoked = NoCalls
    /\ pbar = 0
    /\ failuresSaved = [i \in Items |-> {}]

\* The ledger file can always be written; the ids of the manifest are unique.
Init == FirstStart /\ writeFaults = FALSE /\ videos = UniqueIds

\* Writing the ledger file can fail with an OSError (disk full, read-only
\* directory, no file descriptor left).
InitIO == FirstStart /\ writeFaults = TRUE /\ videos = UniqueIds

\* Any manifest, entries with the same id and different titles included.
InitAnyManifest == FirstStart /\ writeFaults = FALSE /\ videos \in [Items -> Items]

\* ------------------------------------------------- leaving process_video
\* What a task changes of its own item.
Local(i, newpc, f, inv) ==
    /\ pc' = [pc EXCEPT ![i] = newpc]
    /\ files' = [files EXCEPT ![i] = f]
    /\ invoked' = [invoked EXCEPT ![i] = inv]

\* The process is killed: memory is gone, the disk stays as it is.
Killed(fs, file) ==
    /\ phase' = "crashed"
    /\ progress' = EmptyProgress
    /\ semaphore' = MAX_WORKERS
    /\ pc' = NoTasks
    /\ invoked' = NoCalls
    /\ pbar' = 0
    /\ files' = fs
    /\ progress_file' = file
    /\ UNCHANGED <<runNo, apiKey, config, failuresSaved>>

\* The task awaits an external operation while holding its permit.
Suspend(i, newpc, f, inv) ==
    /\ Local(i, newpc, f, inv)
    /\ UNCHANGED <<runNo, phase, apiKey, config, progress, progress_file, semaphore,
                   pbar, failuresSaved>>

\* Faulty variant: the task ends without giving its permit back.
Finish_holding(i, newpc, f, inv, p, recorded) ==
    \/ /\ progress' = p
       /\ progress_file' = save_progress(p)
       /\ pbar' = pbar + 1
       /\ Local(i, newpc, f, inv)
       /\ failuresSaved' = [failuresSaved EXCEPT ![i] = @ \cup recorded]
       /\ UNCHANGED <<runNo, phase, apiKey, config, semaphore>>
    \/ Killed([files EXCEPT ![i] = f], Truncated)

\* The end of process_video for an admitted item: the ledger p is in memory,
\* _save_progress rewrites the file, `async with` releases the permit and
\* process_and_update_pbar ticks the bar, all without an await.  A kill
\* inside _save_progress leaves the file cut short.
Finish(i, newpc, f, inv, p, recorded) ==
    \/ /\ progress' = p
       /\ progress_file' = save_progress(p)
       /\ semaphore' = semaphore + 1
       /\ pbar' = pbar + 1
       /\ Local(i, newpc, f, inv)
       /\ failuresSaved' = [failuresSaved EXCEPT ![i] = @ \cup recorded]
       /\ UNCHANGED <<runNo, phase, apiKey, config>>
    \/ Killed([files EXCEPT ![i] = f], Truncated)

\* What a _save_progress that raises leaves on disk: the file as it was when
\* open() raised, a file cut short when the write raised.
save_progress_raises == {progress_file, Truncated}

\* Lines 147-155: the except branch, entered with the ledger p in memory,
\* appends a failure record and saves.  When this save raises, the exception
\* leaves process_video and gather, and asyncio.run ends the process; the
\* cancelled sibling tasks write nothing.
record_failure(i, f, inv, p, err) ==
    \/ Finish(i, "failed", f, inv,
              [p EXCEPT !.failed_ids = Append(@, FailureRecord(i, err))],
              {FailureRecord(i, err)})
    \/ /\ writeFaults
       /\ \E file \in save_progress_raises :
             Killed([files EXCEPT ![i] = f], file)

\* Faulty variant: the mark is made on a ledger that lost the other marks.
mark_completed_stale(i, f, inv) ==
    Finish(i, "completed", f, inv,
           [progress EXCEPT !.processed_ids = <<VideoId(i)>>], {})

\* Lines 142-145: processed_ids.append(video_id); _save_progress().  The save
\* is inside the try: when it raises, the except branch runs with the id
\* already appended.
mark_completed(i, f, inv) ==
    LET p == [progress EXCEPT !.processed_ids = Append(@, VideoId(i))]
    IN  \/ Finish(i, "completed", f, inv, p, {})
        \/ /\ writeFaults
           /\ record_failure(i, f, inv, p, "save")

\* Faulty variant: the except branch saves without appending a record.
mark_failed_norecord(i, f, inv, err) ==
    Finish(i, "failed", f, inv, progress, {FailureRecord(i, err)})

\* A stage raised: the except branch runs on the ledger as it is.
mark_failed(i, f, inv, err) == record_failure(i, f, inv, progress, err)

\* --------------------------------------------------- metadata and merge
\* save_call_metadata: extract_call_metadata gives None for a page without a
\* parsable data-page attribute, and then nothing is written.
save_call_metadata(f) ==
    IF f.html = "page" THEN [f EXCEPT !.metadata = TRUE] ELSE f

\* create_unified_output gives a record only when metadata, speakers and html
\* files all exist (line 810); otherwise None.
create_unified_output(f) == f.metadata /\ f.speakers /\ f.html # "none"

\* save_unified_output: writes <title>_final.json when there is a record; the
\* record holds extracted_at, the time of this merge.
save_unified_output(f) ==
    IF create_unified_output(f) THEN [f EXCEPT !.final = runNo] ELSE f

\* Faulty variant: an item without a parsable page snapshot is failed.
metadata_and_merge_strict(i, f, inv) ==
    IF f.html = "page"
    THEN mark_completed(i, save_unified_output(save_call_metadata(f)),
                        inv \cup {"metadata", "merge"})
    ELSE mark_failed(i, f, inv \cup {"metadata"}, "metadata")

\* Lines 132-145: metadata extraction when the page snapshot exists, then the
\* merge, then the completed mark, without an await in between.  The process
\* may be killed between any two of the file writes.
metadata_and_merge(i, f, inv) ==
    LET hasHtml == f.html # "none"
        f1 == IF hasHtml THEN save_call_metadata(f) ELSE f
        inv1 == IF hasHtml THEN inv \cup {"metadata"} ELSE inv
        f2 == save_unified_output(f1)
    IN  \/ mark_completed(i, f2, inv1 \cup {"merge"})
        \/ Killed([files EXCEPT ![i] = f], progress_file)
        \/ Killed([files EXCEPT ![i] = f1], progress_file)
        \/ Killed([files EXCEPT ![i] = f2], progress_file)

\* ---------------------------------------------------------- transcription
\* transcript_path.exists() (line 308)
transcript_exists(f) == f.transcript

\* _transcribe_with_speaker_labels up to its await: an existing transcript is
\* returned as it is, otherwise the transcription service is called.
transcribe_with_speaker_labels(i, f, inv) ==
    IF transcript_exists(f)
    THEN metadata_and_merge(i, f, inv)
    ELSE Suspend(i, "transcribing", f, inv \cup {"transcription"})

\* Lines 128-140: without an API key transcription, metadata and merge are
\* all skipped and the item is marked processed.
transcription_stage(i, f, inv) ==
    IF apiKey
    THEN transcribe_with_speaker_labels(i, f, inv)
    ELSE mark_completed(i, f, inv)

\* ------------------------------------------------------------ transcoding
\* Faulty variant: the existing audio file is not seen.
mp3_exists_never(f) == FALSE

\* mp3_path.exists() (line 238): true of a file a killed ffmpeg left behind too.
mp3_exists(f) == f.mp3 # "none"

\* Faulty variant: transcription starts without waiting for an audio file.
download_and_convert_audio_skipped(i, f, inv) == transcription_stage(i, f, inv)

\* _download_and_convert_audio up to its first await.
download_and_convert_audio(i, f, inv) ==
    IF mp3_exists(f)
    THEN transcription_stage(i, f, inv)
    ELSE Suspend(i, "transcoding", f, inv \cup {"transcoder"})

\* ----------------------------------------------------------------- actions
AllStarted == \A i \in Items : pc[i] # "pending"

\* Faulty variant: the gate never closes.
semaphore_free_always == TRUE

\* asyncio.Semaphore.acquire: a permit is free.
semaphore_free == semaphore > 0

\* Faulty variant: capture starts without taking a permit.
Admit_without_permit(i) ==
    /\ Local(i, "capturing", files[i], invoked[i] \cup {"capture"})
    /\ UNCHANGED <<runNo, phase, apiKey, config, progress, progress_file,
                   semaphore, pbar, failuresSaved>>

\* The permit is taken and _get_m3u8_url is called.
Admit(i) ==
    /\ semaphore' = semaphore - 1
    /\ Local(i, "capturing", files[i], invoked[i] \cup {"capture"})
    /\ UNCHANGED <<runNo, phase, apiKey, config, progress, progress_file, pbar,
                   failuresSaved>>

\* Faulty variant: the skipped item is marked and saved once more.
skip_video_saving(i) ==
    /\ pc' = [pc EXCEPT ![i] = "skipped"]
    /\ pbar' = pbar + 1
    /\ progress' = [progress EXCEPT !.processed_ids = Append(@, VideoId(i))]
    /\ progress_file' = save_progress(progress')
    /\ UNCHANGED <<runNo, phase, apiKey, config, semaphore, files, invoked,
                   failuresSaved>>

\* Faulty variant: a skipped item does not tick the progress bar.
skip_video_silent(i) ==
    /\ pc' = [pc EXCEPT ![i] = "skipped"]
    /\ UNCHANGED <<runNo, phase, apiKey, config, progress, progress_file,
                   semaphore, files, invoked, pbar, failuresSaved>>

\* Lines 113-115 and 563: an item already processed returns at once; only the
\* progress bar ticks.
skip_video(i) ==
    /\ pc' = [pc EXCEPT ![i] = "skipped"]
    /\ pbar' = pbar + 1
    /\ UNCHANGED <<runNo, phase, apiKey, config, progress, progress_file, semaphore,
                   files, invoked, failuresSaved>>

\* The first step of a task (lines 106-121).  run() creates the tasks in
\* manifest order and the event loop starts them in that order, each running
\* to its first await, before any external operation completes.
process_video(i) ==
    /\ phase = "running"
    /\ pc[i] = "pending"
    /\ \A j \in Items : j < i => pc[j] # "pending"
    /\ IF is_processed(VideoId(i))
       THEN skip_video(i)
       ELSE IF semaphore_free
            THEN Admit(i)
            ELSE /\ pc' = [pc EXCEPT ![i] = "waiting"]
                 /\ UNCHANGED <<runNo, phase, apiKey, config, progress, progress_file,
                                semaphore, files, invoked, pbar, failuresSaved>>

\* A waiting task is woken by a release; waiters are served first come, first
\* served, which is manifest order.
semaphore_acquire(i) ==
    /\ phase = "running"
    /\ pc[i] = "waiting"
    /\ semaphore_free
    /\ \A j \in Items : j < i => pc[j] # "waiting"
    /\ Admit(i)

\* _get_m3u8_url returns (lines 121-126).  The page snapshot is written over
\* the old one ("page": with a parsable data-page attribute, "plain": without),
\* or writing it failed and the exception was swallowed ("keep"); a locator
\* was seen or not.
get_m3u8_url_returns(i) ==
    /\ phase = "running" /\ AllStarted
    /\ pc[i] = "capturing"
    /\ \E html \in {"keep", "plain", "page"}, found \in BOOLEAN :
         LET f == IF html = "keep" THEN files[i]
                  ELSE [files[i] EXCEPT !.html = html]
         IN  IF found
             THEN download_and_convert_audio(i, f, invoked[i])
             ELSE mark_failed(i, f, invoked[i], "m3u8")

\* _get_m3u8_url raises (browser launch or navigation failed).
get_m3u8_url_raises(i) ==
    /\ phase = "running" /\ AllStarted
    /\ pc[i] = "capturing"
    /\ mark_failed(i, files[i], invoked[i], "capture")

\* ffmpeg writes its output straight to the final mp3 path.
ffmpeg_writes(i) ==
    /\ phase = "running" /\ AllStarted
    /\ pc[i] = "transcoding"
    /\ files[i].mp3 = "none"
    /\ Suspend(i, "transcoding", [files[i] EXCEPT !.mp3 = "partial"], invoked[i])

\* ffmpeg exits with code 0 (lines 295-299, then 128-145); or the process is
\* killed right there, before transcription starts.
ffmpeg_succeeds(i) ==
    /\ phase = "running" /\ AllStarted
    /\ pc[i] = "transcoding"
    /\ LET f == [files[i] EXCEPT !.mp3 = "complete"]
       IN  \/ transcription_stage(i, f, invoked[i])
           \/ Killed([files EXCEPT ![i] = f], progress_file)

\* ffmpeg exits with another code: the exception reaches the except branch.
ffmpeg_fails(i) ==
    /\ phase = "running" /\ AllStarted
    /\ pc[i] = "transcoding"
    /\ mark_failed(i, files[i], invoked[i], "ffmpeg")

\* The transcript comes back completed: the transcript text, then the speaker
\* breakdown are written (lines 326-342), then lines 132-145 follow; or the
\* process is killed between the two writes.
transcription_completes(i) ==
    /\ phase = "running" /\ AllStarted
    /\ pc[i] = "transcribing"
    /\ LET f == [files[i] EXCEPT !.transcript = TRUE]
       IN  \/ metadata_and_merge(i, [f EXCEPT !.speakers = TRUE], invoked[i])
           \/ Killed([files EXCEPT ![i] = f], progress_file)

\* Faulty variant: the failed transcription leaves a transcript text behind.
transcription_fails_writing(i) ==
    /\ phase = "running" /\ AllStarted
    /\ pc[i] = "transcribing"
    /\ mark_failed(i, [files[i] EXCEPT !.transcript = TRUE], invoked[i],
                   "transcricao")

\* The service reports an error, another status, or the call raises.
transcription_fails(i) ==
    /\ phase = "running" /\ AllStarted
    /\ pc[i] = "transcribing"
    /\ mark_failed(i, files[i], invoked[i], "transcricao")

\* asyncio.gather returns in run(): every task has ended.
run_returns ==
    /\ phase = "running"
    /\ \A i \in Items : pc[i] \in Terminal
    /\ phase' = "finished"
    /\ UNCHANGED <<runNo, apiKey, config, progress, progress_file, semaphore, pc, files,
                   invoked, pbar, failuresSaved>>

\* The process is killed while its tasks are suspended.
kill ==
    /\ phase = "running"
    /\ Killed(files, progress_file)

\* The program is started again: __init__ loads the ledger and run() begins.
\* json.load raises on a truncated file and nothing runs.
main ==
    /\ phase \in {"finished", "crashed"}
    /\ runNo < MaxRuns
    /\ runNo' = runNo + 1
    /\ apiKey' \in BOOLEAN
    /\ semaphore' = MAX_WORKERS
    /\ pc' = NoTasks
    /\ invoked' = NoCalls
    /\ pbar' = 0
    /\ IF load_raises(progress_file)
       THEN /\ phase' = "load_failed"
            /\ progress' = EmptyProgress
       ELSE /\ phase' = "running"
            /\ progress' = load_progress(progress_file)
    /\ UNCHANGED <<config, progress_file, files, failuresSaved>>

Next ==
    \/ \E i \in Items : process_video(i)
    \/ \E i \in Items : semaphore_acquire(i)
    \/ \E i \in Items : get_m3u8_url_returns(i)
    \/ \E i \in Items : get_m3u8_url_raises(i)
    \/ \E i \in Items : ffmpeg_writes(i)
    \/ \E i \in Items : ffmpeg_succeeds(i)
    \/ \E i \in Items : ffmpeg_fails(i)
    \/ \E i \in Items : transcription_completes(i)
    \/ \E i \in Items : transcription_fails(i)
    \/ run_returns
    \/ kill
    \/ main

Spec == Init /\ [][Next]_vars

\* The same program on a disk where writing the ledger file can fail.
SpecIO == InitIO /\ [][Next]_vars

\* The same program over any manifest.
SpecAnyManifest == InitAnyManifest /\ [][Next]_vars

TypeOK ==
    /\ runNo \in 1..MaxRuns
    /\ MAX_WORKERS \in 1..MaxPermits
    /\ semaphore \in 0..MAX_WORKERS
    /\ pbar \in 0..NumItems
    /\ phase \in {"running", "finished", "crashed", "load_failed"}
    /\ writeFaults \in BOOLEAN
    /\ videos \in [Items -> Items]
    /\ \A i \in Items : invoked[i] \subseteq Collaborators


\* The steps of the running batch (everything but a kill and a new start).
RunStep ==
    \/ \E i \in Items : process_video(i)
    \/ \E i \in Items : semaphore_acquire(i)
    \/ \E i \in Items : get_m3u8_url_returns(i)
    \/ \E i \in Items : get_m3u8_url_raises(i)
    \/ \E i \in Items : ffmpeg_writes(i)
    \/ \E i \in Items : ffmpeg_succeeds(i)
    \/ \E i \in Items : ffmpeg_fails(i)
    \/ \E i \in Items : transcription_completes(i)
    \/ \E i \in Items : transcription_fails(i)
    \/ run_returns

\* ------------------------------------------------------------- vocabulary
Alive == phase \in {"running", "finished"}

\* The completed collection of the ledger in memory.
Completed == Range(progress.processed_ids)

\* What a reload of processing_progress.json gives.
Reloaded == IF progress_file.st = "ok" THEN progress_file.data ELSE EmptyProgress

\* Positions of the failure records of item i made in run r.
RecordsOf(ledger, i, r) ==
    {k \in 1..Len(ledger.failed_ids) :
        /\ ledger.failed_ids[k].id = VideoId(i)
        /\ ledger.failed_ids[k].timestamp = r}

\* Collaborators called for item i by the step being taken.
NewCalls(i) == invoked'[i] \ invoked[i]

InFlight == {i \in Items : pc[i] \in Holding}

\* ------------------------------------------------------------------ claims

\* C1: once every item of the manifest is in the completed collection (as it
\* is throughout a run that follows a fully completed one), no step calls a
\* collaborator for any item, and the ledger file and every canonical record
\* file stay exactly as they are.
C1_SecondRunIdle ==
    [][(Alive /\ \A i \in Items : VideoId(i) \in Completed)
         => /\ \A i \in Items : NewCalls(i) = {}
            /\ progress_file' = progress_file
            /\ \A i \in Items : files'[i].final = files[i].final]_vars

\* C1 witness: a second run over a fully completed manifest has ended, every
\* item skipped, canonical records of the first run in place.
C1_Witness ==
    /\ runNo = 2 /\ phase = "finished"
    /\ \A i \in Items : pc[i] = "skipped" /\ files[i].final = 1
    /\ pbar = NumItems

\* C2: a task that starts while its id is in the completed collection ends at
\* once as skipped: it takes no permit, calls no collaborator and leaves the
\* ledger in memory and on disk as they are.
C2_SkipCompleted ==
    [][\A i \in Items :
         (/\ phase = "running" /\ phase' = "running"
          /\ pc[i] = "pending" /\ pc'[i] # "pending"
          /\ VideoId(i) \in Completed)
         => /\ pc'[i] = "skipped"
            /\ semaphore' = semaphore
            /\ invoked'[i] = {}
            /\ progress' = progress
            /\ progress_file' = progress_file]_vars

\* C2 witness: in one run an item was skipped as completed while another item
\* is being processed.
C2_Witness ==
    /\ phase = "running"
    /\ \E i, j \in Items : pc[i] = "skipped" /\ pc[j] \in Holding

\* C3: with any items failing, every item reaches its own outcome: a failed
\* item has exactly one failure record of this run and is not completed, a
\* completed item is in the completed collection without a failure record of
\* this run, an unfinished item has no record of this run, and while an item
\* is unfinished the batch can still take a step.
C3_FailureIsolation ==
    /\ \A i \in Items :
         /\ pc[i] = "failed"
              => /\ Cardinality(RecordsOf(progress, i, runNo)) = 1
                 /\ VideoId(i) \notin Completed
         /\ pc[i] = "completed"
              => /\ VideoId(i) \in Completed
                 /\ RecordsOf(progress, i, runNo) = {}
         /\ pc[i] \notin Terminal => RecordsOf(progress, i, runNo) = {}
    /\ (phase = "running" /\ \E i \in Items : pc[i] \notin Terminal)
         => ENABLED RunStep
    /\ phase = "finished" => \A i \in Items : pc[i] \in Terminal

\* C3 witness: a run ended with one item failed and another completed after it.
C3_Witness ==
    /\ phase = "finished"
    /\ \E i, j \in Items :
         /\ i < j
         /\ pc[i] = "failed" /\ pc[j] = "completed"
         /\ files[j].final = runNo

\* C4: never more than MAX_WORKERS items between the start of their capture
\* and their end.
C4_ConcurrencyBound == Cardinality(InFlight) <= MAX_WORKERS

\* C4 witness: every permit is taken and an item waits at the gate.
C4_Witness ==
    /\ Cardinality(InFlight) = MAX_WORKERS
    /\ \E i \in Items : pc[i] = "waiting"

\* C5 (as claimed): every id in the completed collection has a canonical
\* record file.
C5_CompletedHasRecord ==
    \A i \in Items : VideoId(i) \in Completed => files[i].final # 0

\* C6 (as claimed): an item that comes back with a complete audio file and no
\* transcript, with the API key set, never fails before its transcription is
\* called, and the transcoder is not called for it.
C6_ResumeAtTranscription ==
    \A i \in Items :
        (/\ Alive /\ apiKey
         /\ files[i].mp3 = "complete" /\ "transcoder" \notin invoked[i]
         /\ ~files[i].transcript
         /\ pc[i] = "failed")
        => "transcription" \in invoked[i]

C8_LedgerFlushed == Alive => Reloaded = progress

\* C8 witness: a task is suspended while the ledger holds a completed mark
\* and a failure record.
C8_Witness ==
    /\ phase = "running"
    /\ InFlight # {}
    /\ progress.processed_ids # <<>>
    /\ progress.failed_ids # <<>>

\* C9 (as claimed): the ledger file is never cut short.
C9_NeverTruncated == progress_file.st # "truncated"

\* C10 (as claimed): the ledger file holds, for every item, exactly the
\* failure records whose save completed, each once, those of earlier runs
\* included; and an item with a failure record of the current run is not in
\* the file's completed collection.
C10_FailureRecordsDurable ==
    progress_file.st # "truncated" =>
      \A i \in Items :
        /\ {Reloaded.failed_ids[k] :
              k \in {n \in 1..Len(Reloaded.failed_ids) :
                        Reloaded.failed_ids[n].id = VideoId(i)}}
             = failuresSaved[i]
        /\ \A r \in 1..MaxRuns :
              Cardinality(RecordsOf(Reloaded, i, r)) <= 1
        /\ RecordsOf(Reloaded, i, runNo) # {}
              => VideoId(i) \notin Range(Reloaded.processed_ids)

\* C10 witness: the process was killed in its second run right after a failure
\* record of an item that had already failed in the first run was saved.
C10_Witness ==
    /\ phase = "crashed" /\ runNo = 2
    /\ \E i \in Items :
         /\ RecordsOf(Reloaded, i, 1) # {}
         /\ RecordsOf(Reloaded, i, 2) # {}
         /\ Reloaded.failed_ids[Len(Reloaded.failed_ids)].id = VideoId(i)

\* C11 (as claimed): no item has both a completed mark and a failure record of
\* the current run, in the ledger in memory or in the ledger file, so that the
\* next run does not skip an item recorded as failed.
C11_FailedNotCompleted ==
    /\ Alive =>
          \A i \in Items :
              RecordsOf(progress, i, runNo) # {} => VideoId(i) \notin Completed
    /\ progress_file.st = "ok" =>
          \A i \in Items :
              RecordsOf(Reloaded, i, runNo) # {}
                 => VideoId(i) \notin Range(Reloaded.processed_ids)

\* C12 (as claimed): the completed collection never holds the same id twice.
C12_CompletedOnce ==
    \A k, n \in 1..Len(progress.processed_ids) :
        k # n => progress.processed_ids[k] # progress.processed_ids[n]

\* C13: a start of main() with no ledger file runs with the empty ledger; a
\* start with a ledger file that cannot be parsed ends in the load error,
\* runs nothing, and the file stays as it is, then and ever after.
C13_LoadFailsLoudly ==
    [][/\ (runNo' # runNo /\ progress_file.st = "absent")
            => phase' = "running" /\ progress' = EmptyProgress
       /\ (runNo' # runNo /\ progress_file.st = "truncated")
            => phase' = "load_failed" /\ pc' = NoTasks
       /\ progress_file.st = "truncated" => progress_file' = progress_file]_vars

\* C13 witness: the second start found a ledger file cut short by a kill and
\* ended in the load error with the file still there.
C13_Witness ==
    /\ runNo = 2 /\ phase = "load_failed"
    /\ progress_file.st = "truncated"

\* The collaborators that were called when the stage named by a failure
\* record's error raised.
CalledBefore(err) ==
    CASE err \in {"m3u8", "capture"} -> {{"capture"}}
      [] err = "ffmpeg" -> {{"capture", "transcoder"}}
      [] err = "transcricao" -> {{"capture", "transcription"},
                                 {"capture", "transcoder", "transcription"}}
      [] OTHER -> {}

StageErrors == {"m3u8", "capture", "ffmpeg", "transcricao"}

\* C15: no failure record comes from metadata extraction; an item that has
\* its transcript and whose page snapshot is missing or has no parsable
\* structure leaves the pipeline completed, with the merge called; and the
\* step that ends such an item writes no metadata.
C15_MetadataOptional ==
    [][\A i \in Items :
         /\ \A k \in RecordsOf(progress', i, runNo) :
               progress'.failed_ids[k].error \in StageErrors
         /\ (/\ phase' = "running" /\ apiKey
             /\ pc[i] \in Holding /\ pc'[i] \in Terminal
             /\ files'[i].transcript
             /\ files'[i].html \in {"none", "plain"})
              => /\ pc'[i] = "failed" => NewCalls(i) = {}
                 /\ pc'[i] # "failed"
                      => /\ pc'[i] = "completed"
                         /\ "merge" \in NewCalls(i)
                         /\ "metadata" \in NewCalls(i)
                               <=> files'[i].html = "plain"
                 /\ files'[i].metadata = files[i].metadata]_vars

\* C15 witness: a run ended with one item completed without a page snapshot
\* and another completed on a snapshot without parsable structure, neither
\* with metadata, both after their merge was called.
C15_Witness ==
    /\ phase = "finished" /\ apiKey
    /\ \E i, j \in Items :
         /\ pc[i] = "completed" /\ pc[j] = "completed"
         /\ files[i].html = "none" /\ files[j].html = "plain"
         /\ ~files[i].metadata /\ ~files[j].metadata
         /\ "merge" \in invoked[i] /\ "merge" \in invoked[j]
         /\ "metadata" \notin invoked[i] /\ "metadata" \in invoked[j]

\* C16 (as claimed): an item completed in this run after its merge was called,
\* with transcript and speaker breakdown on disk and no metadata, has a
\* canonical record written by that merge.
C16_MergeWithoutMetadata ==
    \A i \in Items :
        (/\ pc[i] = "completed" /\ "merge" \in invoked[i]
         /\ files[i].transcript /\ files[i].speakers
         /\ ~files[i].metadata)
        => files[i].final = runNo

\* The outcome of item i in this run is in the ledger file.
Recorded(file, i) ==
    /\ file.st = "ok"
    /\ pc[i] = "completed" => VideoId(i) \in Range(file.data.processed_ids)
    /\ pc[i] = "failed" => RecordsOf(file.data, i, runNo) # {}

\* C17: while the batch is alive the free permits are MAX_WORKERS less the
\* items between the start of capture and their end, and all MAX_WORKERS when
\* the batch has ended; an item enters capture only by taking a free permit;
\* a collaborator is called for an item only in a step in which the item
\* holds a permit or takes one; and the step that ends an admitted item gives
\* back one permit with the item's outcome in the ledger file.
C17_GateProtocol ==
    [][/\ Alive' => semaphore' = MAX_WORKERS' - Cardinality(InFlight')
       /\ phase' = "finished" => semaphore' = MAX_WORKERS'
       /\ \A i \in Items :
            /\ (pc[i] \notin Holding /\ pc'[i] \in Holding)
                 => /\ pc'[i] = "capturing"
                    /\ semaphore > 0 /\ semaphore' = semaphore - 1
            /\ NewCalls(i) # {} => pc[i] \in Holding \/ pc'[i] \in Holding
            /\ (pc[i] \in Holding /\ pc'[i] \in Terminal)
                 => /\ semaphore' = semaphore + 1
                    /\ Recorded(progress_file, i)']_vars

\* C17 witness: with one permit, a batch ended after an item failed and the
\* item that waited for its permit completed.
C17_Witness ==
    /\ phase = "finished" /\ MAX_WORKERS = 1 /\ semaphore = 1
    /\ \E i, j \in Items :
         /\ pc[i] = "failed" /\ pc[j] = "completed"
         /\ "capture" \in invoked[j]

IsPrefix(s, t) == Len(s) <= Len(t) /\ \A k \in 1..Len(s) : s[k] = t[k]

\* C18: a step of the running batch adds at most one entry to the ledger and
\* removes or changes none, in memory and in the file; and the ledger file
\* holds the outcome of every item that has ended.
C18_LedgerSerialized ==
    [][(phase = "running" /\ phase' = "running") =>
         /\ IsPrefix(progress.processed_ids, progress'.processed_ids)
         /\ IsPrefix(progress.failed_ids, progress'.failed_ids)
         /\ IsPrefix(Reloaded.processed_ids, Reloaded'.processed_ids)
         /\ IsPrefix(Reloaded.failed_ids, Reloaded'.failed_ids)
         /\ Len(progress'.processed_ids) + Len(progress'.failed_ids)
              <= Len(progress.processed_ids) + Len(progress.failed_ids) + 1
         /\ \A i \in Items :
               pc'[i] \in {"completed", "failed"} => Recorded(progress_file, i)']_vars

\* C18 witness: two pipelines were in flight together and ended in the
\* reverse of the manifest order; the file holds both marks.
C18_Witness ==
    /\ phase = "finished" /\ MAX_WORKERS = 2
    /\ NumItems >= 2
    /\ pc[1] = "completed" /\ pc[2] = "completed"
    /\ Reloaded.processed_ids = <<VideoId(2), VideoId(1)>>

\* The place of each collaborator in process_video.
StageRank(c) ==
    CASE c = "capture" -> 1
      [] c = "transcoder" -> 2
      [] c = "transcription" -> 3
      [] c = "metadata" -> 4
      [] c = "merge" -> 5

\* C19: a collaborator is called for an item only after every collaborator
\* already called for it, in the order capture, transcoder, transcription,
\* metadata, merge, and never while an earlier stage of the item is still
\* running: an item in capture has called nothing else, an item in
\* transcoding has called capture and the transcoder only, an item in
\* transcription has its audio file, metadata and merge are called only with
\* the transcript on disk, and the completed mark comes last.
C19_StageOrder ==
    [][\A i \in Items :
         /\ \A c \in NewCalls(i), d \in invoked[i] : StageRank(d) < StageRank(c)
         /\ Alive' =>
              /\ invoked'[i] # {} => "capture" \in invoked'[i]
              /\ pc'[i] = "capturing" => invoked'[i] = {"capture"}
              /\ pc'[i] = "transcoding"
                   => invoked'[i] = {"capture", "transcoder"}
              /\ pc'[i] = "transcribing"
                   => /\ invoked'[i] \cap {"metadata", "merge"} = {}
                      /\ files'[i].mp3 # "none"
              /\ invoked'[i] \cap {"metadata", "merge"} # {}
                   => /\ pc'[i] = "completed"
                      /\ files'[i].mp3 # "none" /\ files'[i].transcript
              /\ "metadata" \in invoked'[i] => "merge" \in invoked'[i]
              /\ pc'[i] = "completed"
                   => /\ "capture" \in invoked'[i]
                      /\ files'[i].mp3 # "none"
                      /\ apiKey' => "merge" \in invoked'[i]]_vars

\* C19 witness: an item went through all five stages in one run and was
\* marked completed with its canonical record written.
C19_Witness ==
    \E i \in Items :
        /\ pc[i] = "completed"
        /\ invoked[i] = Collaborators
        /\ files[i].final = runNo
        /\ VideoId(i) \in Completed

\* C20: while the batch is alive the progress bar has ticked once for each
\* item that has ended (completed, failed or skipped) and for no other; when
\* the batch has ended it shows the number of manifest entries.
C20_OneTickPerItem ==
    /\ Alive => pbar = Cardinality({i \in Items : pc[i] \in Terminal})
    /\ phase = "finished" => pbar = NumItems

\* C20 witness: a batch ended with one item skipped as completed and another
\* failed, the bar at the number of entries.
C20_Witness ==
    /\ phase = "finished" /\ pbar = NumItems
    /\ \E i, j \in Items : pc[i] = "skipped" /\ pc[j] = "failed"

\* ================================================= helper functions alone
\* Text is a sequence of one-character strings.

\* What str.strip() removes at both ends.
Whitespace == {" "}

RECURSIVE lstrip(_)
lstrip(s) == IF s # <<>> /\ Head(s) \in Whitespace THEN lstrip(Tail(s)) ELSE s

RECURSIVE rstrip(_)
rstrip(s) ==
    IF s # <<>> /\ s[Len(s)] \in Whitespace
    THEN rstrip(SubSeq(s, 1, Len(s) - 1))
    ELSE s

\* str.strip()
strip(s) == rstrip(lstrip(s))

\* ------------------------------------------------------- artifact paths
\* The character class of _sanitize_filename: [<>:"/\\|?*]
InvalidChars == {"<", ">", ":", "\"", "/", "\\", "|", "?", "*"}

RECURSIVE Flatten(_)
Flatten(ss) == IF ss = <<>> THEN <<>> ELSE Head(ss) \o Flatten(Tail(ss))

\* Faulty variant: invalid characters and underscores are escaped by doubling.
sanitize_filename_doubling(filename) ==
    strip(Flatten([k \in 1..Len(filename) |->
                     IF filename[k] \in InvalidChars \cup {"_"}
                     THEN <<"_", "_">> ELSE <<filename[k]>>]))

\* _sanitize_filename: re.sub(r'[<>:"/\\|?*]', '_', filename).strip()
sanitize_filename(filename) ==
    strip([k \in 1..Len(filename) |->
             IF filename[k] \in InvalidChars THEN "_" ELSE filename[k]])

\* _get_video_paths: each path as its components under DOWNLOADS_DIR; a file
\* name is the title followed by its fixed ending.
get_video_paths(title) ==
    [final |-> <<title \o <<"_final.json">> >>,
     video_dir |-> <<title>>,
     mp3 |-> <<title, title \o <<"_1.75x.mp3">> >>,
     transcript |-> <<title, title \o <<"_transcript.txt">> >>,
     speakers_json |-> <<title, title \o <<"_speakers.json">> >>,
     speakers_txt |-> <<title, title \o <<"_speakers.txt">> >>,
     transcript_details |-> <<title, title \o <<"_transcript_details.json">> >>,
     metadata |-> <<title, title \o <<"_metadata.json">> >>,
     summary |-> <<title, title \o <<"_summary.txt">> >>,
     fathom_transcript_json |-> <<title, title \o <<"_fathom_transcript.json">> >>,
     fathom_transcript_txt |-> <<title, title \o <<"_fathom_transcript.txt">> >>,
     html |-> <<title, title \o <<".html">> >>]

\* The artifact files the stages read and write.
ArtifactKinds ==
    {"html", "mp3", "transcript", "speakers_json", "metadata", "final"}

\* Longest title of a manifest entry.
MaxTitleLen == 2

RECURSIVE SeqsUpTo(_, _)
SeqsUpTo(S, n) ==
    IF n = 0 THEN {<<>>}
    ELSE LET shorter == SeqsUpTo(S, n - 1)
         IN  shorter \cup {Append(t, c) : t \in shorter, c \in S}

\* Titles of the manifest's entries, made of a letter, a blank, two invalid
\* characters and the underscore that replaces them.
Titles == SeqsUpTo({"a", " ", "/", ":", "_"}, MaxTitleLen)

\* A resolution not made yet; a made one is a sequence of one value.
NotResolved == <<>>

\* The manifest entries have any titles; no path has been resolved.
InitPaths ==
    /\ NoBatch
    /\ input \in [Items -> Titles]
    /\ output = [i \in Items |-> [task |-> NotResolved, capture |-> NotResolved]]

\* process_video sanitizes the entry's title (line 109); every stage resolves
\* its paths from that title.
process_video_paths(i) ==
    /\ output[i].task = NotResolved
    /\ output' = [output EXCEPT
                    ![i].task = <<get_video_paths(sanitize_filename(input[i]))>>]
    /\ UNCHANGED <<batch, input>>

\* _get_m3u8_url gets the sanitized title, sanitizes it again and resolves
\* the path of the page snapshot from the result (lines 207-209).
get_m3u8_url_paths(i) ==
    /\ output[i].task # NotResolved
    /\ output[i].capture = NotResolved
    /\ output' = [output EXCEPT
                    ![i].capture = <<get_video_paths(sanitize_filename(
                                         sanitize_filename(input[i])))>>]
    /\ UNCHANGED <<batch, input>>

NextPaths ==
    \/ \E i \in Items : process_video_paths(i)
    \/ \E i \in Items : get_m3u8_url_paths(i)

SpecPaths == InitPaths /\ [][NextPaths]_vars

\* C21 (as claimed): two different entries of the manifest have no artifact
\* path in common.
C21_PathsItemScoped ==
    \A i, j \in Items :
        (i # j /\ output[i].task # NotResolved /\ output[j].task # NotResolved)
        => \A k, n \in ArtifactKinds :
               output[i].task[1][k] # output[j].task[1][n]

\* C22: sanitizing a sanitized title changes nothing, so the paths Capturing
\* resolves are those every other stage of the item resolves, for every kind
\* of file; and resolving the same title again gives the same paths.
C22_PathsStable ==
    \A i \in Items :
        /\ sanitize_filename(sanitize_filename(input[i]))
             = sanitize_filename(input[i])
        /\ output[i].capture # NotResolved => output[i].capture = output[i].task
        /\ output[i].task # NotResolved
             => output[i].task[1] = get_video_paths(sanitize_filename(input[i]))

\* C22 witness: a title with an invalid character and blanks at both ends was
\* resolved by process_video and again by the capture.
C22_Witness ==
    \E i \in Items :
        /\ input[i] # sanitize_filename(input[i])
        /\ Len(sanitize_filename(input[i])) < Len(input[i])
        /\ \E k \in 1..Len(input[i]) : input[i][k] \in InvalidChars
        /\ output[i].capture # NotResolved


\* C23: an audio file that is not complete exists at the audio path only
\* while the Transcoder of that item is running in a live process: once the
\* Transcoder has failed or the process was killed during Transcoding, no
\* audio file is at the audio path (so that no later run finds one there and
\* skips Transcoding).
C23_AudioOnlyOnSuccess ==
    \A i \in Items :
        files[i].mp3 = "partial" => phase = "running" /\ pc[i] = "transcoding"

\* ------------------------------------------------------ question detection
\* str.lower() on the letters of the texts studied.
UpperCase == <<"A", "B", "C", "D", "E", "F", "G", "H", "I", "J", "K", "L", "M",
               "N", "O", "P", "Q", "R", "S", "T", "U", "V", "W", "X", "Y", "Z">>

LowerCase == <<"a", "b", "c", "d", "e", "f", "g", "h", "i", "j", "k", "l", "m",
               "n", "o", "p", "q", "r", "s", "t", "u", "v", "w", "x", "y", "z">>

lower(text) ==
    [k \in 1..Len(text) |->
        IF \E n \in 1..Len(UpperCase) : UpperCase[n] = text[k]
        THEN LowerCase[CHOOSE n \in 1..Len(UpperCase) : UpperCase[n] = text[k]]
        ELSE text[k]]

\* `part in text` of two strings: part occurs somewhere in text.
contains(text, part) ==
    \E p \in 1..(Len(text) - Len(part) + 1) :
        SubSeq(text, p, p + Len(part) - 1) = part

\* text[:n]
Take(text, n) == SubSeq(text, 1, IF Len(text) < n THEN Len(text) ELSE n)

\* Line 767.
question_indicators ==
    << <<"?">>,
       <<"c", "o", "m", "o">>,
       <<"q", "u", "a", "l">>,
       <<"q", "u", "a", "n", "d", "o">>,
       <<"o", "n", "d", "e">>,
       <<"p", "o", "r", " ", "q", "u", "e">>,
       <<"o", " ", "q", "u", "e">> >>

\* Longest preview before the ellipsis (lines 776-777).
PreviewCap == 150

\* Lines 773-774: the test made on the lowered text.
is_question(text) ==
    LET t == lower(text)
    IN  \/ contains(t, <<"?">>)
        \/ \E n \in 1..Len(question_indicators) : contains(t, question_indicators[n])

\* Faulty variant: a long text is cut without the marker.
question_text_unmarked(text) == Take(text, PreviewCap)

\* Lines 776-778: the preview of the text as it was said.
question_text(text) ==
    IF Len(text) > PreviewCap
    THEN Take(text, PreviewCap) \o <<".", ".", ".">>
    ELSE Take(text, PreviewCap)

\* detect_questions_from_transcript on speakers_data['utterances'].
detect_questions_from_transcript(utterances) ==
    LET hits == SelectSeq(utterances, LAMBDA u : is_question(u.text))
    IN  [n \in 1..Len(hits) |->
            [speaker_id |-> hits[n].speaker, question |-> question_text(hits[n].text)]]

\* Speaker labels the transcription gives.
SpeakerIds == {"A", "B"}

\* Most utterances of a transcript, and most calls on one transcript.
MaxUtterances == 2
MaxExecutions == 2

Filler(n) == [k \in 1..n |-> "x"]

\* Texts said: short ones with and without a question mark or an indicator,
\* one with an indicator inside a longer word, and long ones around the cap.
QuestionTexts ==
    { <<"o", "k">>,
      <<"?">>,
      <<"C", "o", "m", "o", " ", "v", "a", "i">>,
      <<"a", "c", "o", "m", "o", "d", "a", "r">>,
      Filler(PreviewCap),
      <<"?">> \o Filler(PreviewCap - 2),
      <<"?">> \o Filler(PreviewCap - 1),
      <<"?">> \o Filler(PreviewCap),
      <<"?">> \o Filler(PreviewCap + 1),
      Filler(PreviewCap) \o <<"?">> }

QuestionUtterances == [speaker : SpeakerIds, text : QuestionTexts]

\* A speaker breakdown of any utterances; no detection has been made.
InitQuestions ==
    /\ NoBatch
    /\ input \in SeqsUpTo(QuestionUtterances, MaxUtterances)
    /\ output = <<>>

\* Line 859: the merger asks for the questions of the breakdown.
detect_questions_call ==
    /\ Len(output) < MaxExecutions
    /\ output' = Append(output, detect_questions_from_transcript(input))
    /\ UNCHANGED <<batch, input>>

NextQuestions == detect_questions_call

SpecQuestions == InitQuestions /\ [][NextQuestions]_vars

\* The positions of the utterances of the transcript that hold a question.
Detected == {k \in 1..Len(input) : is_question(input[k].text)}

\* The position in the transcript of the n-th utterance holding a question.
NthDetected(n) ==
    CHOOSE k \in Detected : Cardinality({j \in Detected : j <= k}) = n

\* C29: each question list made holds one entry per detected utterance, in
\* the order of the utterances; the preview of an entry is the utterance's
\* text unchanged when it has at most 150 characters and else its first 150
\* characters followed by "..."; and every run over the same utterances gives
\* the same list.
C29_PreviewCapped ==
    \A r \in 1..Len(output) :
        /\ Len(output[r]) = Cardinality(Detected)
        /\ \A n \in 1..Len(output[r]) :
               LET u == input[NthDetected(n)]
               IN  /\ output[r][n].speaker_id = u.speaker
                   /\ output[r][n].question =
                        IF Len(u.text) <= 150
                        THEN u.text
                        ELSE [k \in 1..150 |-> u.text[k]] \o <<".", ".", ".">>
        /\ output[r] = output[1]

\* C29 witness: two runs were made over a transcript of a question of exactly
\* 150 characters and a longer one, and the list holds both.
C29_Witness ==
    /\ Len(output) = 2
    /\ Len(input) = 2
    /\ Len(input[1].text) = 150
    /\ Len(input[2].text) > 150
    /\ Len(output[2]) = 2
    /\ Len(output[2][1].question) = 150
    /\ Len(output[2][2].question) = 153

\* The characters words are made of.
WordChars == Range(LowerCase)

\* word occurs in text with no letter right before it or right after it.
occurs_as_word(text, word) ==
    \E p \in 1..(Len(text) - Len(word) + 1) :
        /\ SubSeq(text, p, p + Len(word) - 1) = word
        /\ p > 1 => text[p - 1] \notin WordChars
        /\ p + Len(word) <= Len(text) => text[p + Len(word)] \notin WordChars

\* C30 (as claimed): an utterance is in the question list exactly when its
\* text holds a question mark or one of the interrogative words as a word.
C30_ListedIffQuestion ==
    \A r \in 1..Len(output) :
        \A k \in 1..Len(input) :
            LET t == lower(input[k].text)
                asked == \/ contains(t, <<"?">>)
                         \/ \E n \in 2..Len(question_indicators) :
                                occurs_as_word(t, question_indicators[n])
                listed == \E n \in 1..Len(output[r]) :
                              /\ NthDetected(n) = k
                              /\ output[r][n].speaker_id = input[k].speaker
            IN  listed <=> asked

\* ------------------------------------------------------------------ merger
\* The distinct elements of a sequence, in the order of their first appearance.
RECURSIVE first_appearance(_)
first_appearance(seq) ==
    IF seq = <<>> THEN <<>>
    ELSE LET front == first_appearance(SubSeq(seq, 1, Len(seq) - 1))
             last == seq[Len(seq)]
         IN  IF last \in Range(front) THEN front ELSE Append(front, last)

\* The keys of speakers_data['speakers'] as _process_speakers fills it: one
\* per speaker id, added when its first utterance is met (lines 381-392).
assembly_speakers(utterances) ==
    first_appearance([k \in 1..Len(utterances) |-> utterances[k].speaker])

\* list(set(names)) (line 828): the distinct names in the order the set gives
\* them, which is any order (string hashes differ from process to process).
unique_speakers(quotes) ==
    {order \in [1..Cardinality(Range(quotes)) -> Range(quotes)] :
        Range(order) = Range(quotes)}

\* Faulty variant: the placeholder does not carry the speaker id.
placeholder_untagged(speaker_id) == <<"Speaker ">>

\* f"Speaker {speaker_id}" (line 835).
placeholder(speaker_id) == <<"Speaker ", speaker_id>>

\* Lines 825-835: the dictionary, as its items in insertion order; it stays
\* empty when the page gave no quotes.
speaker_mapping(quotes, order, ids) ==
    IF quotes = <<>> THEN <<>>
    ELSE [i \in 1..Len(ids) |->
             [speaker_id |-> ids[i],
              name |-> IF i <= Len(order) THEN order[i] ELSE placeholder(ids[i])]]

\* Lines 838-847.
participants(mapping, host_name) ==
    [i \in 1..Len(mapping) |->
        [speaker_id |-> mapping[i].speaker_id,
         name |-> mapping[i].name,
         is_host |-> mapping[i].name = host_name]]

\* '\n\n'.join(transcript_lines) of the lines f"Speaker {speaker_id}: {text}"
\* (lines 850-857).
RECURSIVE transcript_text(_)
transcript_text(utterances) ==
    IF utterances = <<>> THEN <<>>
    ELSE LET u == utterances[Len(utterances)]
             line == <<"Speaker ", u.speaker, ": ">> \o u.text
             front == SubSeq(utterances, 1, Len(utterances) - 1)
         IN  IF front = <<>> THEN line
             ELSE transcript_text(front) \o <<"\n\n">> \o line

\* What create_unified_output returns: no record, or a sequence of one record.
None == <<>>

\* create_unified_output with its three files present (lines 814-930), for
\* the order the set of names came in and the time of the call.  The import
\* at line 869 makes the name datetime local to the function, bound only once
\* the branch of a non-empty started_at has run: with an empty started_at the
\* call at line 926 raises, and the except branch returns None.  The fields
\* copied from the metadata and the fixed summary are left out.
unified_data(in, order, now) ==
    IF in.started_at = ""
    THEN None
    ELSE << [host_name |-> in.host_name,
             participants |->
                 participants(speaker_mapping(in.quotes, order,
                                              assembly_speakers(in.utterances)),
                              in.host_name),
             transcript_text |-> transcript_text(in.utterances),
             questions |-> detect_questions_from_transcript(in.utterances),
             extracted_at |-> now,
             status |-> "extracted"] >>

\* Names the page shows for its quotes, and the most quotes of a page.
DisplayNames == {<<"Ana">>, <<"Bob">>}
MaxQuotes == 2

\* The page's quotes (their speaker names), the speaker breakdown and the
\* metadata are any; nothing has been merged.
InitMerger ==
    /\ NoBatch
    /\ input \in [quotes : SeqsUpTo(DisplayNames, MaxQuotes),
                  utterances : SeqsUpTo([speaker : SpeakerIds,
                                         text : {<<>>, <<"o", "i", "?">>}],
                                        MaxUtterances),
                  started_at : {"", "2025-01-15T10:00:00Z"},
                  host_name : {<<>>, <<"Ana">>}]
    /\ output = <<>>

\* save_unified_output: what one call writes to <title>_final.json, nothing
\* when create_unified_output gave None (lines 942-943).
save_unified_output_call ==
    /\ Len(output) < MaxExecutions
    /\ \E order \in unique_speakers(input.quotes) :
           output' = Append(output, unified_data(input, order, Len(output) + 1))
    /\ UNCHANGED <<batch, input>>

NextMerger == save_unified_output_call

SpecMerger == InitMerger /\ [][NextMerger]_vars

\* The calls of the merger that wrote a canonical record.
Written == {r \in 1..Len(output) : output[r] # None}

\* C24 (as claimed, the time of extraction apart): two executions on the same
\* quotes, speaker breakdown and metadata write the same canonical record:
\* the same participants (so the same speaker-to-name mapping), transcript
\* text, questions, host and status.
C24_MergerDeterministic ==
    \A r, s \in 1..Len(output) :
        /\ r \in Written <=> s \in Written
        /\ (r \in Written /\ s \in Written)
             => [output[r][1] EXCEPT !.extracted_at = 0]
                  = [output[s][1] EXCEPT !.extracted_at = 0]

\* C25 (as claimed): in a canonical record written from a page with quotes,
\* the i-th speaker id in order of first appearance is paired with the i-th
\* display name in order of first appearance in the page's quotes.
C25_FirstAppearancePairing ==
    \A r \in Written :
        LET ids == first_appearance(
                       [k \in 1..Len(input.utterances) |-> input.utterances[k].speaker])
            names == first_appearance(input.quotes)
            entries == output[r][1].participants
        IN  \A i \in 1..Len(ids) :
                i <= Len(names)
                => /\ i <= Len(entries)
                   /\ entries[i].speaker_id = ids[i]
                   /\ entries[i].name = names[i]

\* C26: in a canonical record written from a page with at least one quote,
\* every speaker id of the breakdown has exactly one participant entry; the
\* entries of the first ids, as many as there are distinct display names,
\* carry display names of the page, each name once, and every later id
\* carries the placeholder "Speaker <id>".
C26_OneEntryPerSpeaker ==
    \A r \in Written :
        input.quotes # <<>>
        => LET entries == output[r][1].participants
               ids == {input.utterances[k].speaker : k \in 1..Len(input.utterances)}
               named == {i \in 1..Len(entries) : i <= Cardinality(Range(input.quotes))}
           IN  /\ \A id \in ids :
                      Cardinality({i \in 1..Len(entries) : entries[i].speaker_id = id}) = 1
               /\ \A i \in 1..Len(entries) : entries[i].speaker_id \in ids
               /\ \A i \in named : entries[i].name \in Range(input.quotes)
               /\ \A i, j \in named : i # j => entries[i].name # entries[j].name
               /\ \A i \in (1..Len(entries)) \ named :
                      entries[i].name = <<"Speaker ", entries[i].speaker_id>>

\* C26 witness: a record was written for two speakers and one display name;
\* the first carries the name and the second the placeholder.
C26_Witness ==
    \E r \in Written :
        /\ Cardinality(Range(input.quotes)) = 1
        /\ Len(output[r][1].participants) = 2
        /\ output[r][1].participants[1].name \in DisplayNames
        /\ output[r][1].participants[2].name \notin DisplayNames

\* C27 (as claimed): a canonical record written with status 'extracted' has a
\* transcript text that is not empty.
C27_ExtractedHasText ==
    \A r \in Written :
        output[r][1].status = "extracted" => output[r][1].transcript_text # <<>>

\* ------------------------------------------------------- duration parsing
Digits == <<"0", "1", "2", "3", "4", "5", "6", "7", "8", "9">>

\* str.isdigit()
isdigit(text) == text # <<>> /\ \A k \in 1..Len(text) : text[k] \in Range(Digits)

\* int() of a string of digits.
RECURSIVE int(_)
int(text) ==
    IF text = <<>> THEN 0
    ELSE 10 * int(SubSeq(text, 1, Len(text) - 1))
         + (CHOOSE d \in 0..9 : Digits[d + 1] = text[Len(text)])

\* Where sep starts in text.
occurrences(text, sep) ==
    {p \in 1..(Len(text) - Len(sep) + 1) : SubSeq(text, p, p + Len(sep) - 1) = sep}

first_occurrence(text, sep) ==
    CHOOSE p \in occurrences(text, sep) : \A q \in occurrences(text, sep) : p <= q

\* text.split(sep)[0]
split_0(text, sep) ==
    IF occurrences(text, sep) = {} THEN text
    ELSE SubSeq(text, 1, first_occurrence(text, sep) - 1)

\* text.split(sep)[1], for a text that holds sep.
split_1(text, sep) ==
    split_0(SubSeq(text, first_occurrence(text, sep) + Len(sep), Len(text)), sep)

\* ''.join(c for c in text if c.isdigit())
digits_only(text) == SelectSeq(text, LAMBDA c : c \in Range(Digits))

\* PostgreSQLClient._parse_duration_minutes: None, or a sequence of one number.
PostgreSQLClient_parse_duration_minutes(duration_str) ==
    IF duration_str = <<>> THEN None
    ELSE LET s == lower(duration_str)
             hours_part == strip(split_0(s, <<"h">>))
             hours == IF contains(s, <<"h">>) /\ isdigit(hours_part)
                      THEN int(hours_part) * 60 ELSE 0
             before_min == split_0(s, <<"m", "i", "n">>)
             mins_part == IF contains(before_min, <<"h">>)
                          THEN strip(split_1(before_min, <<"h">>))
                          ELSE strip(before_min)
             mins_clean == digits_only(mins_part)
             mins == IF contains(s, <<"m", "i", "n">>) /\ mins_clean # <<>>
                     THEN int(mins_clean) ELSE 0
             total_minutes == hours + mins
         IN  IF total_minutes > 0 THEN <<total_minutes>> ELSE None

\* SupabaseClient._parse_duration_minutes.
SupabaseClient_parse_duration_minutes(duration_str) ==
    IF duration_str = <<>> THEN None
    ELSE LET s == lower(duration_str)
             hours_part == strip(split_0(s, <<"h">>))
             hours == IF contains(s, <<"h">>) /\ isdigit(hours_part)
                      THEN int(hours_part) * 60 ELSE 0
             before_min == split_0(s, <<"m", "i", "n">>)
             mins_part == IF contains(before_min, <<"h">>)
                          THEN strip(split_1(before_min, <<"h">>))
                          ELSE strip(before_min)
             mins_clean == digits_only(mins_part)
             mins == IF contains(s, <<"m", "i", "n">>) /\ mins_clean # <<>>
                     THEN int(mins_clean) ELSE 0
             total_minutes == hours + mins
         IN  IF total_minutes > 0 THEN <<total_minutes>> ELSE None

\* The validator of FathomCall.duration: an empty value is kept, any other
\* is stripped.
validate_duration(v) == IF v = <<>> THEN v ELSE strip(v)

\* FathomCall.get_duration_minutes of a call built with the duration v.
FathomCall_get_duration_minutes(v) ==
    LET duration == validate_duration(v)
    IN  IF duration = <<>> THEN None
        ELSE LET s == lower(duration)
                 hours_part == strip(split_0(s, <<"h">>))
                 hours == IF contains(s, <<"h">>) /\ isdigit(hours_part)
                          THEN int(hours_part) * 60 ELSE 0
                 before_min == split_0(s, <<"m", "i", "n">>)
                 mins_part == IF contains(before_min, <<"h">>)
                              THEN strip(split_1(before_min, <<"h">>))
                              ELSE strip(before_min)
                 mins_clean == digits_only(mins_part)
                 mins == IF contains(s, <<"m", "i", "n">>) /\ mins_clean # <<>>
                         THEN int(mins_clean) ELSE 0
                 total_minutes == hours + mins
             IN  IF total_minutes > 0 THEN <<total_minutes>> ELSE None

\* Largest numbers of hours and of minutes written in a duration.
MaxHours == 2
MaxMinutes == 12

\* The decimal writing of a number.
RECURSIVE decimal(_)
decimal(n) ==
    IF n < 10 THEN <<Digits[n + 1]>>
    ELSE Append(decimal(n \div 10), Digits[(n % 10) + 1])

Mins(m) == decimal(m) \o <<" ", "m", "i", "n", "s">>
HoursMins(h, m) == decimal(h) \o <<"h", " ">> \o decimal(m) \o <<"m", "i", "n", "s">>
Hours(h) == decimal(h) \o <<"h">>

\* Durations given to the conversion: the three written forms, the form
\* format_duration_minutes writes for an hour or more ("1h 30m"), upper case
\* and padded ones, and strings with no number in them.
Durations ==
    {Mins(m) : m \in 0..MaxMinutes}
    \cup {HoursMins(h, m) : h \in 0..MaxHours, m \in 0..MaxMinutes}
    \cup {Hours(h) : h \in 0..MaxHours}
    \cup {decimal(h) \o <<"h", " ">> \o decimal(m) \o <<"m">> :
              h \in 1..MaxHours, m \in 0..MaxMinutes}
    \cup { <<>>, <<" ">>, <<"m", "i", "n", "s">>, <<"h">>, <<"n", "/", "a">>,
           <<"8", " ", "M", "I", "N", "S">>, <<" ", "1", "H", " ">> }

\* A duration is given; no conversion has been made.
InitDuration ==
    /\ NoBatch
    /\ input \in Durations
    /\ output = [model |-> NotResolved, postgres |-> NotResolved,
                 supabase |-> NotResolved]

\* FathomCall.to_dict asks the model for the minutes.
get_duration_minutes_call ==
    /\ output.model = NotResolved
    /\ output' = [output EXCEPT !.model = <<FathomCall_get_duration_minutes(input)>>]
    /\ UNCHANGED <<batch, input>>

\* PostgreSQLClient._prepare_call_data converts call_data['duration'].
postgres_prepare_call_data ==
    /\ output.postgres = NotResolved
    /\ output' = [output EXCEPT
                    !.postgres = <<PostgreSQLClient_parse_duration_minutes(input)>>]
    /\ UNCHANGED <<batch, input>>

\* SupabaseClient._prepare_call_data converts call_data['duration'].
supabase_prepare_call_data ==
    /\ output.supabase = NotResolved
    /\ output' = [output EXCEPT
                    !.supabase = <<SupabaseClient_parse_duration_minutes(input)>>]
    /\ UNCHANGED <<batch, input>>

NextDuration ==
    \/ get_duration_minutes_call
    \/ postgres_prepare_call_data
    \/ supabase_prepare_call_data

SpecDuration == InitDuration /\ [][NextDuration]_vars

\* The conversions made so far.
Converted == {output[k][1] : k \in {k \in DOMAIN output : output[k] # NotResolved}}

\* C28 (as claimed): every conversion of "<m> mins", "<h>h <m>mins" or "<h>h"
\* gives 60*h + m; every conversion of an empty string or of one with no
\* digit gives absent; and the model method and the two store clients give
\* the same result for the same string.
C28_DurationMinutes ==
    /\ \A m \in 0..MaxMinutes : input = Mins(m) => Converted \subseteq {<<m>>}
    /\ \A h \in 0..MaxHours, m \in 0..MaxMinutes :
           input = HoursMins(h, m) => Converted \subseteq {<<60 * h + m>>}
    /\ \A h \in 0..MaxHours : input = Hours(h) => Converted \subseteq {<<60 * h>>}
    /\ digits_only(input) = <<>> => Converted \subseteq {None}
    /\ Cardinality(Converted) <= 1

\* ------------------------------------------------------- the final report
\* Lines 574-575: the two counts run() prints once gather has returned.
reported_completed == Len(progress.processed_ids)
reported_failed == Len(progress.failed_ids)

\* Lines 577-580: the reasons listed, one line per failure record.
reported_reasons == [k \in 1..Len(progress.failed_ids) |-> progress.failed_ids[k].error]

\* C32 (as claimed): when the run has finished, the completed count reported
\* is the number of completed items, the failed count reported is the number
\* of manifest items that ended this run failed, and one reason is listed for
\* each of them.
C32_ReportCounts ==
    phase = "finished"
    => /\ reported_completed = Cardinality({i \in Items : is_processed(VideoId(i))})
       /\ reported_failed = Cardinality({i \in Items : pc[i] = "failed"})
       /\ Len(reported_reasons) = Cardinality({i \in Items : pc[i] = "failed"})

\* --------------------------------------------------------------- progress
\* The event loop runs every task that can take a step, and every awaited
\* collaborator call ends: a step of the running batch that stays possible
\* is taken.
SpecFair == Init /\ [][Next]_vars /\ WF_vars(RunStep)

\* C33: unless the process is killed, a running batch ends with every item
\* of the manifest completed (now or in an earlier run) or failed, and every
\* item queued at the gate is admitted.
C33_Progress ==
    /\ (phase = "running")
         ~> (phase = "crashed" \/ (phase = "finished" /\ \A i \in Items : pc[i] \in Terminal))
    /\ \A i \in Items :
           (pc[i] = "waiting") ~> (pc[i] = "capturing" \/ phase = "crashed")

\* C33 witness: with one permit, the second item queued at the gate, was
\* admitted, and the first run ended with one item completed and one failed.
C33_Witness ==
    /\ runNo = 1 /\ phase = "finished" /\ MAX_WORKERS = 1
    /\ pc[1] = "failed" /\ pc[2] = "completed"

\* ------------------------------------------------------- the clean action
\* str.replace(old, new) for a non-empty old: every occurrence, left to right.
RECURSIVE replace(_, _, _)
replace(text, old, new) ==
    IF Len(text) < Len(old) THEN text
    ELSE IF SubSeq(text, 1, Len(old)) = old
         THEN new \o replace(SubSeq(text, Len(old) + 1, Len(text)), old, new)
         ELSE <<text[1]>> \o replace(Tail(text), old, new)

FinalSuffix == <<"_", "f", "i", "n", "a", "l">>

\* Path.stem of the canonical record file of a title (line 90).
final_stem(title) == title \o FinalSuffix

\* clean_video_folders on downloads_batch: for every *_final.json the
\* directory named by the stem without "_final" is removed when it exists;
\* no file of the root is touched.
clean_video_folders(disk) ==
    LET named == {replace(final_stem(t), FinalSuffix, <<>>) : t \in disk.finals}
    IN  [disk EXCEPT !.dirs = @ \ named]

\* Sanitized titles of the items on disk, two of them with "_final" inside.
CleanTitles ==
    { <<"a">>, <<"b">>,
      <<"a", "_", "f", "i", "n", "a", "l">>,
      <<"b", "_", "f", "i", "n", "a", "l", "2">> }

\* After run(): any items have their directory of intermediate artifacts,
\* any have their canonical record file; the clean has not run.
InitClean ==
    /\ NoBatch
    /\ input \in [dirs : SUBSET CleanTitles, finals : SUBSET CleanTitles]
    /\ output = NotResolved

\* main, called with "clean", once run() has returned (lines 1139-1143).
clean ==
    /\ phase = "finished"
    /\ output = NotResolved
    /\ output' = <<clean_video_folders(input)>>
    /\ UNCHANGED <<batch, input>>

NextClean == clean

SpecClean == InitClean /\ [][NextClean]_vars

C36_TranscriptHasSpeakers ==
    \A i \in Items :
        (files[i].transcript /\ pc[i] # "transcribing") => files[i].speakers

\* --------------------------------------------- the transcoder and its pipes
\* What the stderr pipe and the stream reader behind it hold before a write
\* of the transcoder blocks, and the same for the stdout pipe (in lines).
PipeCapacity == 2

\* Most lines of diagnostics and of progress one transcoder run writes.
MaxDiagnostics == 3
MaxProgress == 3

\* create_subprocess_exec (lines 276-280): the transcoder runs with both
\* pipes empty and the stage is about to read the progress stream.
InitPipes ==
    /\ NoBatch
    /\ input \in [diagnostics : 0..MaxDiagnostics, progress : 0..MaxProgress]
    /\ output = [ffmpeg |-> "running", stage |-> "readline",
                 stdout |-> 0, stderr |-> 0, progress |-> 0, diagnostics |-> 0]

\* The transcoder writes a progress line to stdout (-progress pipe:1).
ffmpeg_writes_progress ==
    /\ output.ffmpeg = "running"
    /\ output.progress < input.progress
    /\ output.stdout < PipeCapacity
    /\ output' = [output EXCEPT !.stdout = @ + 1, !.progress = @ + 1]
    /\ UNCHANGED <<batch, input>>

\* The transcoder writes a line of diagnostics to stderr.
ffmpeg_writes_diagnostics ==
    /\ output.ffmpeg = "running"
    /\ output.diagnostics < input.diagnostics
    /\ output.stderr < PipeCapacity
    /\ output' = [output EXCEPT !.stderr = @ + 1, !.diagnostics = @ + 1]
    /\ UNCHANGED <<batch, input>>

\* The transcoder has written everything and exits, closing its pipes.
ffmpeg_exits ==
    /\ output.ffmpeg = "running"
    /\ output.progress = input.progress
    /\ output.diagnostics = input.diagnostics
    /\ output' = [output EXCEPT !.ffmpeg = "exited"]
    /\ UNCHANGED <<batch, input>>

\* Line 285: the stage reads one line of the progress stream.
readline ==
    /\ output.stage = "readline"
    /\ output.stdout > 0
    /\ output' = [output EXCEPT !.stdout = @ - 1]
    /\ UNCHANGED <<batch, input>>

\* Lines 286-287: end of file on the progress stream ends the loop.
readline_eof ==
    /\ output.stage = "readline"
    /\ output.stdout = 0
    /\ output.ffmpeg = "exited"
    /\ output' = [output EXCEPT !.stage = "communicate"]
    /\ UNCHANGED <<batch, input>>

\* Line 294: communicate() reads what is left of both pipes and waits for
\* the exit.
communicate ==
    /\ output.stage = "communicate"
    /\ output' = [output EXCEPT !.stage = "done", !.stderr = 0]
    /\ UNCHANGED <<batch, input>>

NextPipes ==
    \/ ffmpeg_writes_progress
    \/ ffmpeg_writes_diagnostics
    \/ ffmpeg_exits
    \/ readline
    \/ readline_eof
    \/ communicate

SpecPipes == InitPipes /\ [][NextPipes]_vars

\* C38 (as claimed): until the stage has ended, the transcoder or the stage
\* can take a step: the transcoder is never blocked on its diagnostics while
\* the stage waits for the progress stream.
C38_NoPipeDeadlock == output.stage = "done" \/ ENABLED NextPipes

\* -------------------------------------- the duration written and read back
\* format_duration_minutes of a whole number of seconds.
format_duration_minutes(seconds) ==
    IF seconds = 0 THEN <<"0", " ", "m", "i", "n", "s">>
    ELSE LET minutes == seconds \div 60
         IN  IF minutes < 60
             THEN decimal(minutes) \o <<" ", "m", "i", "n", "s">>
             ELSE decimal(minutes \div 60) \o <<"h", " ">>
                  \o decimal(minutes % 60) \o <<"m">>

\* Longest recording, in seconds.
MaxSeconds == 7300

\* A recording of any length; its record has not been written.
InitRoundTrip ==
    /\ NoBatch
    /\ input \in 0..MaxSeconds
    /\ output = [duration |-> NotResolved, duration_minutes |-> NotResolved]

\* Line 888: the merger writes the 'duration' of the canonical record.
create_unified_output_duration ==
    /\ output.duration = NotResolved
    /\ output' = [output EXCEPT !.duration = <<format_duration_minutes(input)>>]
    /\ UNCHANGED <<batch, input>>

\* postgres_client.py line 373: the store converts the record's 'duration'.
prepare_call_data_duration ==
    /\ output.duration # NotResolved
    /\ output.duration_minutes = NotResolved
    /\ output' = [output EXCEPT !.duration_minutes =
                     <<PostgreSQLClient_parse_duration_minutes(output.duration[1])>>]
    /\ UNCHANGED <<batch, input>>

NextRoundTrip ==
    \/ create_unified_output_duration
    \/ prepare_call_data_duration

SpecRoundTrip == InitRoundTrip /\ [][NextRoundTrip]_vars

\* C37 (as claimed): the duration written for a recording of s seconds is
\* read back by the store as floor(s / 60) minutes, or as absent when that
\* is 0.
C37_DurationRoundTrip ==
    output.duration_minutes # NotResolved
    => output.duration_minutes[1]
         = IF input \div 60 = 0 THEN None ELSE <<input \div 60>>

\* -------------------------------------------------------- the record store
\* The child tables, in the order _insert_normalized_data fills them.
ChildTables == <<"call_participants", "call_topics", "call_takeaways",
                 "call_next_steps", "call_questions">>

\* An id is an int or a str; both are written here by their characters.
\* Line 351: a str of digits becomes the int it writes, anything else stays.
prepare_id(id) ==
    IF id.type = "str" /\ isdigit(id.text)
    THEN [type |-> "int", text |-> decimal(int(id.text))]
    ELSE id

\* The row of fathom_calls _prepare_call_data makes (id and title shown).
prepare_call_data(call_data) ==
    [id |-> prepare_id(call_data.id), title |-> call_data.title]

\* Faulty variant: a plain INSERT, the row is added next to the old one.
execute_upsert_adding(calls, row) == calls \cup {row}

\* execute_upsert: INSERT ... ON CONFLICT (id) DO UPDATE SET every other
\* column (lines 158-164), committed by execute_insert.
execute_upsert(calls, row) ==
    {old \in calls : old.id # row.id} \cup {row}

\* execute_single of "SELECT * FROM fathom_calls WHERE id = %s": the rows
\* that can come first in the result, none when there is no such row. The
\* parameter of `WHERE id = %s` is read as a number by the integer column.
get_call_by_id(calls, id) == {row \in calls : row.id = prepare_id(id)}

\* Ids, titles and child collections of the records saved; most saves.
StoreIds == { [type |-> "int", text |-> <<"7">>],
              [type |-> "str", text |-> <<"0", "7">>],
              [type |-> "int", text |-> <<"8">>] }
MaxSaves == 2

StoreRecords ==
    [id : StoreIds, title : {"Kickoff", "Review"},
     has : {{}, {"call_participants"}, Range(ChildTables)}]

NoRows == [t \in Range(ChildTables) |-> {}]

\* An empty store, and the records that will be saved, in order.
InitStore ==
    /\ NoBatch
    /\ input \in [1..MaxSaves -> StoreRecords]
    /\ output = [calls |-> {}, children |-> [id \in {prepare_id(x) : x \in StoreIds}
                                                |-> NoRows],
                 saves |-> 0, pc |-> 0, before |-> NoRows,
                 result |-> None, got |-> NotResolved]

\* The record being saved and the id of its row.
call_data == input[output.saves + 1]
call_id == prepare_id(call_data.id)

\* save_call -> insert_call: the main row is upserted and committed; when
\* the statement fails, insert_call returns None and touches nothing else.
insert_call ==
    /\ output.pc = 0
    /\ output.saves < MaxSaves
    /\ \/ output' = [output EXCEPT
                       !.calls = execute_upsert(@, prepare_call_data(call_data)),
                       !.before = output.children[call_id],
                       !.result = <<prepare_call_data(call_data)>>,
                       !.got = NotResolved,
                       !.pc = 1]
       \/ output' = [output EXCEPT !.result = None, !.got = NotResolved,
                                   !.saves = @ + 1]
    /\ UNCHANGED <<batch, input>>

\* _delete_normalized_data: the five DELETEs and their commit, or an error
\* that is logged and swallowed (lines 498-514).
delete_normalized_data ==
    /\ output.pc = 1
    /\ \/ output' = [output EXCEPT !.children[call_id] = NoRows, !.pc = 2]
       \/ output' = [output EXCEPT !.pc = 2]
    /\ UNCHANGED <<batch, input>>

\* One execute_batch_insert of _insert_normalized_data, with its own
\* connection and commit; a failure is logged and swallowed (lines 171-184).
\* After the last one insert_call returns the main row.
execute_batch_insert ==
    /\ output.pc >= 2
    /\ LET t == ChildTables[output.pc - 1]
           last == output.pc - 1 = Len(ChildTables)
           rows == IF t \in call_data.has THEN {output.saves + 1} ELSE {}
           next == [output EXCEPT !.pc = IF last THEN 0 ELSE @ + 1,
                                  !.saves = IF last THEN @ + 1 ELSE @]
       IN  \/ output' = [next EXCEPT !.children[call_id][t] = @ \cup rows]
           \/ output' = next
    /\ UNCHANGED <<batch, input>>

\* get_call_by_id of the id just saved, after save_call reported success.
get_call_by_id_call ==
    /\ output.pc = 0
    /\ output.saves > 0
    /\ output.result # None
    /\ output.got = NotResolved
    /\ LET rows == get_call_by_id(output.calls, input[output.saves].id)
       IN  IF rows = {} THEN output' = [output EXCEPT !.got = <<None>>]
           ELSE \E row \in rows : output' = [output EXCEPT !.got = <<<<row>>>>]
    /\ UNCHANGED <<batch, input>>

NextStore ==
    \/ insert_call
    \/ delete_normalized_data
    \/ execute_batch_insert
    \/ get_call_by_id_call

SpecStore == InitStore /\ [][NextStore]_vars

PoolClients == 1..2
MaxOperations == 2

\* Faulty variant: the connection is given back on the normal path only.
get_connection_exit_leaking(raised) ==
    IF raised THEN <<"rollback">> ELSE <<"putconn">>

\* What get_connection does with the connection it yielded when the block
\* ends (lines 85-91): a rollback in the except branch when the block raised
\* (the exception is raised again), and putconn in the finally branch.
get_connection_exit(raised) ==
    IF raised THEN <<"rollback", "putconn">> ELSE <<"putconn">>

Count(events, e) == Cardinality({k \in 1..Len(events) : events[k] = e})

\* The pool with every connection in it; no operation has been made.
InitPool ==
    /\ NoBatch
    /\ input = NoCall
    /\ output = [used |-> 0,
                 client |-> [c \in PoolClients |->
                               [pc |-> "idle", kind |-> "none", log |-> <<>>,
                                done |-> 0]]]

\* execute_query or execute_insert is called (lines 112, 128).
execute_called(c) ==
    /\ output.client[c].pc = "idle"
    /\ output.client[c].done < MaxOperations
    /\ \E kind \in {"query", "insert"} :
           output' = [output EXCEPT !.client[c].pc = "getconn",
                                    !.client[c].kind = kind,
                                    !.client[c].log = <<>>]
    /\ UNCHANGED <<batch, input>>

\* Lines 78-84: the pool gives a connection; or the client is not connected
\* or getconn raises, and there is nothing to give back.
getconn(c) ==
    /\ output.client[c].pc = "getconn"
    /\ \/ output' = [output EXCEPT !.used = @ + 1,
                                   !.client[c].pc = "block",
                                   !.client[c].log = <<"getconn">>]
       \/ output' = [output EXCEPT !.client[c].pc = "idle",
                                   !.client[c].done = @ + 1]
    /\ UNCHANGED <<batch, input>>

\* The with block is left, normally or by an exception, after these events.
leave(c, events, raised) ==
    LET exit == get_connection_exit(raised)
    IN  output' = [output EXCEPT
                     !.used = @ - Count(exit, "putconn"),
                     !.client[c].pc = "idle",
                     !.client[c].done = @ + 1,
                     !.client[c].log = @ \o events \o exit]

\* cur.execute and the fetch succeed: execute_query returns from inside the
\* block (line 118), execute_insert goes on to commit (line 136).
cursor_returns(c) ==
    /\ output.client[c].pc = "block"
    /\ IF output.client[c].kind = "query"
       THEN leave(c, <<>>, FALSE)
       ELSE output' = [output EXCEPT !.client[c].pc = "commit"]
    /\ UNCHANGED <<batch, input>>

\* The statement or the fetch raises inside the block.
cursor_raises(c) ==
    /\ output.client[c].pc = "block"
    /\ leave(c, <<"raise">>, TRUE)
    /\ UNCHANGED <<batch, input>>

\* conn.commit() of execute_insert returns.
commit_returns(c) ==
    /\ output.client[c].pc = "commit"
    /\ leave(c, <<"commit">>, FALSE)
    /\ UNCHANGED <<batch, input>>

\* conn.commit() raises.
commit_raises(c) ==
    /\ output.client[c].pc = "commit"
    /\ leave(c, <<"commit", "raise">>, TRUE)
    /\ UNCHANGED <<batch, input>>

NextPool ==
    \/ \E c \in PoolClients : execute_called(c)
    \/ \E c \in PoolClients : getconn(c)
    \/ \E c \in PoolClients : cursor_returns(c)
    \/ \E c \in PoolClients : cursor_raises(c)
    \/ \E c \in PoolClients : commit_returns(c)
    \/ \E c \in PoolClients : commit_raises(c)

SpecPool == InitPool /\ [][NextPool]_vars

\* C39: the connections checked out are exactly those of the operations
\* inside their with block; and an operation that got a connection and has
\* ended gave it back once, as its last event, after a rollback when the
\* block or the commit raised and without one otherwise.
C39_ConnectionsReturned ==
    /\ output.used
         = Cardinality({c \in PoolClients : output.client[c].pc \in {"block", "commit"}})
    /\ \A c \in PoolClients :
           LET log == output.client[c].log
           IN  (output.client[c].pc = "idle" /\ log # <<>>)
               => /\ Count(log, "getconn") = 1
                  /\ Count(log, "putconn") = 1
                  /\ log[Len(log)] = "putconn"
                  /\ Count(log, "raise") = 1
                       => /\ Count(log, "rollback") = 1
                          /\ log[Len(log) - 1] = "rollback"
                  /\ Count(log, "raise") = 0 => Count(log, "rollback") = 0

\* C39 witness: one operation ended normally, another ended by an exception
\* in commit, and no connection is checked out.
C39_Witness ==
    /\ output.used = 0
    /\ output.client[1].pc = "idle"
    /\ output.client[1].log = <<"getconn", "putconn">>
    /\ output.client[2].pc = "idle"
    /\ output.client[2].log = <<"getconn", "commit", "raise", "rollback", "putconn">>

=============================================================================
